---- MODULE Spec2Model ----
(***************************************************************************)
(* A model of the Discord bot of src/discord_mcp: the Hangman game          *)
(* (game.py), the registry of active games, the on_message router, the     *)
(* WebSocket relay and the MCP tool dispatcher (server.py).                 *)
(*                                                                         *)
(* discord.py runs every on_message event as an asyncio task of its own,   *)
(* and websockets runs one websocket_handler task per connection.  Tasks   *)
(* interleave only at an await that really suspends: an action of this     *)
(* model is the code one task runs between two such suspension points.     *)
(***************************************************************************)
EXTENDS Integers, Sequences, FiniteSets, TLC

(***************************************************************************)
(* Bounds of the model.                                                    *)
(***************************************************************************)
\* on_message tasks that may be in flight at the same time
NumHandlers == 2
\* relay connections accepted in one run
MaxConns == 2
\* events observed in one run of the event loop with its queue of tasks
MaxEvents == 4
\* general messages observed in one run of the relay with numbered events
MaxGeneral == 2

Handlers == 1..NumHandlers
Conns == 1..MaxConns
\* HangmanGame objects alive at once: one in the registry, one per task
GameIds == 1..(NumHandlers + 1)
None == 0

(***************************************************************************)
(* game.py: HangmanGame                                                    *)
(***************************************************************************)
\* the words random.choice may draw (a word of HangmanGame.WORDS)
WORDS == { <<"l", "l", "a", "m", "a">> }

\* len(HANGMAN_PICS)
HangmanPicsLen == 7

\* str.lower() on one character of the model's alphabet
lower(c) ==
  CASE c = "L" -> "l"
    [] c = "A" -> "a"
    [] c = "Q" -> "q"
    [] OTHER -> c

\* a test that takes every character for a letter
isalpha_any(c) == TRUE

\* str.isalpha() on one character
isalpha(c) ==
  c \in {"l", "a", "m", "k", "o", "q", "x", "y", "z", "e", "h", "n", "g",
         "s", "t", "r", "p", "L", "A", "Q"}

\* set(word)
CharsOf(w) == { w[i] : i \in 1..Len(w) }

\* a constructor that gives one attempt per picture
HangmanGame_full(w) ==
  [ word |-> w,
    guesses_correct |-> {},
    guesses_incorrect |-> {},
    attempts_left |-> HangmanPicsLen ]

\* HangmanGame.__init__ with the word random.choice returned
HangmanGame(w) ==
  [ word |-> w,
    guesses_correct |-> {},
    guesses_incorrect |-> {},
    attempts_left |-> HangmanPicsLen - 1 ]

\* the slot of a game object that no longer exists
NoGame ==
  [ word |-> <<>>,
    guesses_correct |-> {},
    guesses_incorrect |-> {},
    attempts_left |-> 0 ]

\* a guess that records a miss without counting it
guess_uncounted(g, letter) ==
  LET l == lower(letter) IN
  IF l \in CharsOf(g.word)
    THEN [g EXCEPT !.guesses_correct = @ \cup {l}]
    ELSE [g EXCEPT !.guesses_incorrect = @ \cup {l}]

\* a guess that costs an attempt every time it misses
guess_always_penalised(g, letter) ==
  LET l == lower(letter) IN
  IF l \in CharsOf(g.word)
    THEN [g EXCEPT !.guesses_correct = @ \cup {l}]
    ELSE [g EXCEPT !.guesses_incorrect = @ \cup {l},
                   !.attempts_left = @ - 1]

\* a guess that records every letter as incorrect, in the word or not
guess_recording_all(g, letter) ==
  LET l == lower(letter) IN
  IF l \in CharsOf(g.word)
    THEN [g EXCEPT !.guesses_correct = @ \cup {l},
                   !.guesses_incorrect = @ \cup {l}]
    ELSE IF l \notin g.guesses_incorrect
           THEN [g EXCEPT !.guesses_incorrect = @ \cup {l},
                          !.attempts_left = @ - 1]
           ELSE g

\* HangmanGame.guess: the state of the game after the call
guess(g, letter) ==
  LET l == lower(letter) IN
  IF l \in CharsOf(g.word)
    THEN [g EXCEPT !.guesses_correct = @ \cup {l}]
    ELSE IF l \notin g.guesses_incorrect
           THEN [g EXCEPT !.guesses_incorrect = @ \cup {l},
                          !.attempts_left = @ - 1]
           ELSE g

\* HangmanGame.guess: the value the call returns
guess_result(g, letter) == lower(letter) \in CharsOf(g.word)

\* is_won that counts the letters guessed instead of comparing sets
is_won_counting(g) == Cardinality(g.guesses_correct) = Len(g.word)

\* HangmanGame.is_won
is_won(g) == CharsOf(g.word) \subseteq g.guesses_correct

\* HangmanGame.is_lost
is_lost(g) == g.attempts_left <= 0


\* the characters of the model in the order of their code points, which is
\* the order sorted() puts one-character strings in
CodePointOrder ==
  << "A", "L", "Q", "a", "e", "g", "h", "i", "k", "l", "m", "n", "o", "p",
     "q", "r", "s", "t", "x", "y", "z" >>

\* sorted() of a set of characters
sorted(S) == SelectSeq(CodePointOrder, LAMBDA c : c \in S)

\* sep.join(parts), the parts being characters
RECURSIVE join(_, _)
join(sep, parts) ==
  IF Len(parts) <= 1 THEN parts
  ELSE << Head(parts), sep >> \o join(sep, Tail(parts))

\* HangmanGame.get_display_word
get_display_word(g) ==
  join(" ", [k \in 1..Len(g.word) |->
               IF g.word[k] \in g.guesses_correct THEN g.word[k] ELSE "_"])

\* an index of the picture that is not clamped
hangman_art_index_unclamped(attempts_left) ==
  HangmanPicsLen - 1 - attempts_left

\* get_game_state_message, lines 137-138: the index of the picture
hangman_art_index(attempts_left) ==
  LET index == HangmanPicsLen - 1 - attempts_left
      low == IF index < HangmanPicsLen - 1 THEN index ELSE HangmanPicsLen - 1
  IN  IF low > 0 THEN low ELSE 0

\* n copies of a string ('x' * n, empty for n <= 0)
times(x, n) == [k \in 1..n |-> x]

\* HangmanGame.get_game_state_message: the parts of the message that depend
\* on the game, and the game as the call leaves it (no attribute is assigned)
get_game_state_message(g) ==
  [ self |-> g,
    art |-> hangman_art_index(g.attempts_left),
    word |-> get_display_word(g),
    incorrect |-> join(" ", sorted(g.guesses_incorrect)),
    lives |-> times("red", g.attempts_left)
                \o times("black", HangmanPicsLen - 1 - g.attempts_left),
    footer |-> IF is_won(g) THEN "won"
               ELSE IF is_lost(g) THEN "lost"
               ELSE "continue",
    revealed |-> IF is_won(g) \/ is_lost(g) THEN g.word ELSE << >> ]

(***************************************************************************)
(* Message texts, as sequences of characters.                              *)
(***************************************************************************)
\* bot.command_prefix
command_prefix == <<"!">>

\* a prefix test that never finds the prefix
startswith_never(s, p) == FALSE

\* str.startswith
startswith(s, p) == Len(s) >= Len(p) /\ SubSeq(s, 1, Len(p)) = p

\* str.strip(): leading and trailing blanks removed
RECURSIVE strip(_)
strip(s) ==
  IF s = <<>> THEN s
  ELSE IF Head(s) = " " THEN strip(Tail(s))
  ELSE IF s[Len(s)] = " " THEN strip(SubSeq(s, 1, Len(s) - 1))
  ELSE s

\* str.lower() on a text
lower_str(s) == [i \in 1..Len(s) |-> lower(s[i])]

\* the first blank-separated word of a text, and the text after it
RECURSIVE first_word(_)
first_word(s) ==
  IF s = <<>> \/ Head(s) = " " THEN <<>>
  ELSE <<Head(s)>> \o first_word(Tail(s))

after_first_word(s) == strip(SubSeq(s, Len(first_word(s)) + 1, Len(s)))

HangmanName == <<"h", "a", "n", "g", "m", "a", "n">>
StartWord == <<"s", "t", "a", "r", "t">>
StopWord == <<"s", "t", "o", "p">>

\* What process_commands makes of a text: the sub-command the hangman
\* command is invoked with ("start" when it has no argument), or "none"
\* when the text invokes no command, or "other" for any other argument.
parse_command(content) ==
  IF ~startswith(content, command_prefix) THEN "none"
  ELSE LET view == SubSeq(content, Len(command_prefix) + 1, Len(content))
           args == strip(after_first_word(view))
           command == IF args = <<>> THEN StartWord
                      ELSE lower_str(first_word(args))
       IN  IF first_word(view) # HangmanName THEN "none"
           ELSE IF command = StartWord THEN "start"
           ELSE IF command = StopWord THEN "stop"
           ELSE "other"

\* a bot that listens to the other channel
TARGET_CHANNEL_ID_other == "7"

\* os.getenv(args.channel_var): the only channel the bot listens to
TARGET_CHANNEL_ID == "42"
OtherChannel == "7"
Channels == {TARGET_CHANNEL_ID, OtherChannel}

TextStart == <<"!">> \o HangmanName \o <<" ">> \o StartWord
TextBare == <<"!">> \o HangmanName
TextStop == <<"!">> \o HangmanName \o <<" ">> \o StopWord
TextHello == <<"h", "e", "l", "l", "o">>

\* texts of the events of the game runs: the commands, a text that is no
\* guess, the letters of the word, two letters that are not in it and an
\* upper-case letter
GameTexts ==
  {TextStart, TextBare, TextStop, TextHello}
    \cup { <<c>> : c \in {"l", "a", "m", "k", "q", "L"} }

\* texts of the events of the losing runs: the start command and seven
\* letters that are not in the word
LosingTexts ==
  {TextStart} \cup { <<c>> : c \in {"k", "o", "q", "x", "y", "z", "e"} }

\* texts of the events of the relay runs
RelayTexts == {TextHello, <<"q">>}

\* texts that are neither a command nor a single letter: blank, longer than
\* one character, a digit, a symbol
IgnoredTexts == { <<" ">>, TextHello, <<"5">>, <<"?">> }

Texts == GameTexts \cup LosingTexts \cup RelayTexts \cup IgnoredTexts

Message(bot, ch, text) == [author_bot |-> bot, channel |-> ch, content |-> text]

GameMessages ==
  { Message(FALSE, TARGET_CHANNEL_ID, t) : t \in GameTexts }
    \cup { Message(TRUE, TARGET_CHANNEL_ID, <<"q">>),
           Message(FALSE, OtherChannel, TextStart) }

LosingMessages == { Message(FALSE, TARGET_CHANNEL_ID, t) : t \in LosingTexts }

RelayMessages ==
  { Message(FALSE, TARGET_CHANNEL_ID, t) : t \in RelayTexts }
    \cup { Message(FALSE, OtherChannel, TextHello) }

\* parse_command, startswith(command_prefix) and strip().lower() of each
\* text of the model, computed once
command_of == [t \in Texts |-> parse_command(t)]

has_prefix == [t \in Texts |-> startswith(t, command_prefix)]

guess_text == [t \in Texts |-> lower_str(strip(t))]

(***************************************************************************)
(* server.py: the state                                                    *)
(***************************************************************************)
VARIABLES
  discord_client,        \* TRUE once on_ready has set the client
  active_hangman_games,  \* state.active_hangman_games: channel -> entry
  games,                 \* the HangmanGame objects, by identity
  handlers,              \* the on_message tasks
  websocket_client,      \* state.websocket_client: a connection or None
  conns,                 \* the relay connections: "unused", "open", "closed"
  ws_tasks,              \* the websocket_handler task of each connection
  tool_call,             \* the tool call the MCP server is handling
  sent,                  \* the types of the messages sent over each connection
  websocket_server,      \* the start_websocket_server task and its endpoint
  event_loop             \* the on_message tasks that have yet to start

vars == << discord_client, active_hangman_games, games, handlers,
           websocket_client, conns, ws_tasks, tool_call, sent,
           websocket_server, event_loop >>

NoEntry == [game |-> None, game_message |-> None]

\* an on_message task that is not running.  While a task runs, path is the
\* branch it took, valid whether its text is a single letter, term whether
\* its guess ended the game and ph what became of its placeholder; once it
\* has ended, ph and exc (an exception left on_message) are what is kept;
\* the path of a task that ended at line 103 is "discarded".
Idle ==
  [ pc |-> "done", path |-> "none", channel_id |-> "", game |-> None,
    valid |-> FALSE, term |-> FALSE, ph |-> "none", exc |-> FALSE ]

\* the game objects the code still uses: the one of a registry entry and
\* the local variable game of a task that has yet to read it
Live(reg, hs) ==
  ({ reg[c].game : c \in Channels } \cup { hs[h].game : h \in Handlers })
    \ {None}

\* the heap once the objects nothing refers to are gone
Collect(gs, reg, hs) ==
  [ i \in GameIds |-> IF i \in Live(reg, hs) THEN gs[i] ELSE NoGame ]

\* the identity of a new object
FreshGame == CHOOSE i \in GameIds :
  /\ i \notin Live(active_hangman_games, handlers)
  /\ \A j \in GameIds : j < i => j \in Live(active_hangman_games, handlers)

\* the arguments of a request that decide what call_tool does
NoArgs == [emojis |-> <<>>, timeout_minutes |-> 0, is_member |-> FALSE]

\* no tool call yet.  Of a call: its name and arguments, whether the client
\* was ready when it came, the calls to the chat platform still to make
\* (the first one awaited) and those made, why it failed, and the response
\* the MCP server got for it.
NoCall ==
  [ pc |-> "idle", name |-> "", args |-> NoArgs, ready |-> FALSE,
    todo |-> << >>, performed |-> << >>, failure |-> "",
    response |-> "none", text |-> "", raised |-> FALSE ]

\* state.websocket_server before main has run: no task, no endpoint
NoServer == [task |-> "none", listening |-> FALSE]

\* the event loop with no on_message task waiting to start: ready holds the
\* events observed whose task has not started, seen counts the events
\* observed, and applied lists the events whose guess was applied to a game,
\* in the order of the calls of game.guess.  For the general messages: task
\* is the number of the event each task handles, published the placeholders
\* with the event each was published for, and forwarded the payloads handed
\* to the relay.
NoEvents ==
  [ ready |-> << >>, seen |-> 0, applied |-> << >>,
    task |-> [h \in Handlers |-> 0], published |-> {}, forwarded |-> {} ]

Init ==
  /\ discord_client = FALSE
  /\ active_hangman_games = [c \in Channels |-> NoEntry]
  /\ games = [i \in GameIds |-> NoGame]
  /\ handlers = [h \in Handlers |-> Idle]
  /\ websocket_client = None
  /\ conns = [c \in Conns |-> "unused"]
  /\ ws_tasks = [c \in Conns |-> "none"]
  /\ tool_call = NoCall
  /\ sent = [c \in Conns |-> {}]
  /\ websocket_server = NoServer
  /\ event_loop = NoEvents

\* the task h after it has ended, normally or with an exception
Ended(h, how) ==
  [Idle EXCEPT !.ph = handlers[h].ph, !.exc = (how = "raise")]

\* the three variables a step of a game changes
SetGame(gs, reg, hs) ==
  /\ active_hangman_games' = reg
  /\ handlers' = hs
  /\ games' = Collect(gs, reg, hs)

(***************************************************************************)
(* server.py: the hangman command                                          *)
(***************************************************************************)
\* hangman, command "start", up to its await of ctx.send
hangman_start(h, ch) ==
  IF active_hangman_games[ch] # NoEntry
    THEN SetGame(games, active_hangman_games,
                 [handlers EXCEPT ![h] = [Idle EXCEPT !.pc = "reject_send",
                     !.path = "command", !.channel_id = ch]])
    ELSE \E w \in WORDS :
           SetGame([games EXCEPT ![FreshGame] = HangmanGame(w)],
                   active_hangman_games,
                   [handlers EXCEPT ![h] = [Idle EXCEPT !.pc = "start_send",
                       !.path = "command", !.channel_id = ch,
                       !.game = FreshGame]])

\* a "stop" that answers and leaves the entry where it is
hangman_stop_keeping(h, ch) ==
  SetGame(games, active_hangman_games,
          [handlers EXCEPT ![h] = [Idle EXCEPT
              !.pc = IF active_hangman_games[ch] # NoEntry
                       THEN "stop_send" ELSE "nostop_send",
              !.path = "command", !.channel_id = ch]])

\* hangman, command "stop", up to its await of ctx.send
hangman_stop(h, ch) ==
  IF active_hangman_games[ch] # NoEntry
    THEN SetGame(games, [active_hangman_games EXCEPT ![ch] = NoEntry],
                 [handlers EXCEPT ![h] = [Idle EXCEPT !.pc = "stop_send",
                     !.path = "command", !.channel_id = ch]])
    ELSE SetGame(games, active_hangman_games,
                 [handlers EXCEPT ![h] = [Idle EXCEPT !.pc = "nostop_send",
                     !.path = "command", !.channel_id = ch]])

\* what hangman's "start" does once its ctx.send of the first status has
\* returned: the entry is stored
store_game(reg, ch, g) ==
  [reg EXCEPT ![ch] = [game |-> g, game_message |-> g]]

(***************************************************************************)
(* server.py: on_message                                                   *)
(***************************************************************************)
\* on_message from line 108 on, for a text that has invoked no command that
\* suspends: the guess branch up to its first await, else the general
\* message branch up to its await of channel.send
after_commands(h, m) ==
  LET ch == m.channel
      text == guess_text[m.content]
      single == Len(text) = 1 /\ isalpha(text[1])
      entry == active_hangman_games[ch]
  IN
  IF entry # NoEntry /\ ~has_prefix[m.content]
    THEN IF single
           THEN LET after == guess(games[entry.game], text[1]) IN
             SetGame([games EXCEPT ![entry.game] = after],
                     active_hangman_games,
                     [handlers EXCEPT ![h] = [Idle EXCEPT !.pc = "edit",
                        !.path = "guess", !.channel_id = ch,
                        !.game = entry.game, !.valid = TRUE,
                        !.term = /\ ~(is_won(games[entry.game])
                                       \/ is_lost(games[entry.game]))
                                 /\ (is_won(after) \/ is_lost(after))]])
           ELSE SetGame(games, active_hangman_games,
                     [handlers EXCEPT ![h] = [Idle EXCEPT !.pc = "msg_delete",
                        !.path = "guess", !.channel_id = ch,
                        !.valid = FALSE]])
    ELSE IF ~has_prefix[m.content]
      THEN SetGame(games, active_hangman_games,
                   [handlers EXCEPT ![h] = [Idle EXCEPT !.pc = "thinking_send",
                      !.path = "general", !.channel_id = ch, !.valid = single]])
      ELSE SetGame(games, active_hangman_games,
                   [handlers EXCEPT ![h] = Idle])

\* an on_message that handles the events of every room
on_message_unfiltered(h, m) ==
  /\ handlers[h].pc = "done"
  /\ UNCHANGED << discord_client, websocket_client, conns, ws_tasks, tool_call,
                  sent, websocket_server >>
  /\ CASE command_of[m.content] = "start" -> hangman_start(h, m.channel)
       [] command_of[m.content] = "stop" -> hangman_stop(h, m.channel)
       [] OTHER -> after_commands(h, m)

\* on_message, from its start to the first await that suspends
on_message(h, m) ==
  /\ handlers[h].pc = "done"
  /\ UNCHANGED << discord_client, websocket_client, conns, ws_tasks, tool_call,
                  sent, websocket_server >>
  /\ IF m.author_bot \/ m.channel # TARGET_CHANNEL_ID
       THEN SetGame(games, active_hangman_games,
                    [handlers EXCEPT ![h] = [Idle EXCEPT !.path = "discarded"]])
       ELSE CASE command_of[m.content] = "start" ->
                   hangman_start(h, m.channel)
              [] command_of[m.content] = "stop" ->
                   hangman_stop(h, m.channel)
              [] OTHER -> after_commands(h, m)

\* the ctx.send of a hangman command returns or raises.  An exception of a
\* command stays in the command framework (on_command_error); either way
\* on_message goes on at line 108 with a text that starts with the prefix,
\* which takes neither branch.
CommandSendReturns(h) ==
  /\ handlers[h].pc \in {"start_send", "reject_send", "stop_send", "nostop_send"}
  /\ UNCHANGED << discord_client, websocket_client, conns, ws_tasks, tool_call,
                  sent, websocket_server, event_loop >>
  /\ \E ok \in BOOLEAN :
       SetGame(games,
               IF handlers[h].pc = "start_send" /\ ok
                 THEN store_game(active_hangman_games, handlers[h].channel_id,
                                 handlers[h].game)
                 ELSE active_hangman_games,
               [handlers EXCEPT ![h] = Ended(h, "return")])

\* lines 118-119, run when game_message.edit has returned: whether del
\* raises KeyError, the entry being gone
del_raises(reg, ch, g) == (is_won(g) \/ is_lost(g)) /\ reg[ch] = NoEntry

\* lines 118-119: the registry after them
remove_if_over(reg, ch, g) ==
  IF is_won(g) \/ is_lost(g) THEN [reg EXCEPT ![ch] = NoEntry] ELSE reg

\* game_message.edit returns or raises
EditReturns(h) ==
  /\ handlers[h].pc = "edit"
  /\ UNCHANGED << discord_client, websocket_client, conns, ws_tasks, tool_call,
                  sent, websocket_server, event_loop >>
  /\ \E ok \in BOOLEAN :
       IF ~ok \/ del_raises(active_hangman_games, handlers[h].channel_id,
                            games[handlers[h].game])
         THEN SetGame(games, active_hangman_games,
                      [handlers EXCEPT ![h] = Ended(h, "raise")])
         ELSE SetGame(games,
                      remove_if_over(active_hangman_games,
                                     handlers[h].channel_id,
                                     games[handlers[h].game]),
                      [handlers EXCEPT ![h].pc = "msg_delete",
                                       ![h].game = None])

\* what on_message does with the outcome of message.delete: only
\* discord.errors.Forbidden is caught
delete_outcome(result) ==
  IF result \in {"ok", "Forbidden"} THEN "return" ELSE "raise"

\* message.delete of the guess message returns or raises
MessageDeleteReturns(h) ==
  /\ handlers[h].pc = "msg_delete"
  /\ UNCHANGED << discord_client, websocket_client, conns, ws_tasks, tool_call,
                  sent, websocket_server, event_loop >>
  /\ \E result \in {"ok", "Forbidden", "HTTPException"} :
       SetGame(games, active_hangman_games,
               [handlers EXCEPT ![h] = Ended(h, delete_outcome(result))])

\* lines 135-158, run when channel.send has published the placeholder: the
\* branch taken on state.websocket_client
relay_branch(client) == IF client # None THEN "send" ELSE "delete"

\* lines 149-154: the payload of a general message
payload == [type |-> "message"]

\* lines 133-158 once channel.send of the placeholder returns or raises;
\* with a client set the payload is handed to websocket_client.send, which
\* transmits it on an open connection and raises ConnectionClosed on a
\* closed one
thinking_send_returns(h) ==
  /\ handlers[h].pc = "thinking_send"
  /\ UNCHANGED << discord_client, active_hangman_games, games,
                  websocket_client, ws_tasks, tool_call,
                  websocket_server >>
  /\ \E ok \in BOOLEAN :
       IF ~ok
         THEN /\ handlers' = [handlers EXCEPT ![h] = Ended(h, "raise")]
              /\ UNCHANGED << conns, sent >>
         ELSE IF relay_branch(websocket_client) = "send"
           THEN IF conns[websocket_client] = "open"
                  THEN \E delivered \in BOOLEAN :
                         IF delivered
                           THEN /\ handlers' = [handlers EXCEPT ![h] =
                                      [Ended(h, "return") EXCEPT !.ph = "sent"]]
                                /\ sent' = [sent EXCEPT ![websocket_client] =
                                               @ \cup {payload.type}]
                                /\ UNCHANGED conns
                           ELSE /\ handlers' = [handlers EXCEPT ![h] =
                                      [Ended(h, "raise") EXCEPT !.ph = "send_failed"]]
                                /\ conns' = [conns EXCEPT ![websocket_client] = "closed"]
                                /\ UNCHANGED sent
                  ELSE /\ handlers' = [handlers EXCEPT ![h] =
                             [Ended(h, "raise") EXCEPT !.ph = "send_failed"]]
                       /\ UNCHANGED << conns, sent >>
           ELSE /\ handlers' = [handlers EXCEPT ![h].pc = "thinking_delete",
                                                ![h].ph = "published"]
                /\ UNCHANGED << conns, sent >>

\* channel.send of the placeholder returns or raises
ThinkingSendReturns(h) ==
  /\ thinking_send_returns(h)
  /\ UNCHANGED event_loop

\* thinking_message.delete returns or raises
ThinkingDeleteReturns(h) ==
  /\ handlers[h].pc = "thinking_delete"
  /\ UNCHANGED << discord_client, active_hangman_games, games,
                  websocket_client, conns, ws_tasks, tool_call,
                  sent, websocket_server, event_loop >>
  /\ \E ok \in BOOLEAN :
       handlers' = [handlers EXCEPT ![h] =
          IF ok THEN [Ended(h, "return") EXCEPT !.ph = "deleted"]
                ELSE [Ended(h, "raise") EXCEPT !.ph = "delete_failed"]]

(***************************************************************************)
(* server.py: websocket_handler                                            *)
(***************************************************************************)
\* a handler that keeps the client it has and lets a second one wait
set_client_if_none(c) == IF websocket_client # None THEN websocket_client ELSE c

\* line 771
set_client(c) == c

\* line 773: the ready notification
ready_notification == [type |-> "connection", isActive |-> TRUE]

\* line 780, the finally clause
clear_client(client, c) == None

\* A client connects and websocket_handler runs to its first await: the
\* handle is set and the ready notification is sent.  When that send
\* raises, the exception leaves the handler before its try statement.
WebsocketAccept(c) ==
  /\ websocket_server.listening
  /\ conns[c] = "unused"
  /\ \A d \in Conns : d < c => conns[d] # "unused"
  /\ websocket_client' = set_client(c)
  /\ \E ok \in BOOLEAN :
       IF ok THEN /\ conns' = [conns EXCEPT ![c] = "open"]
                  /\ ws_tasks' = [ws_tasks EXCEPT ![c] = "wait_closed"]
                  /\ sent' = [sent EXCEPT ![c] = @ \cup {ready_notification.type}]
             ELSE /\ conns' = [conns EXCEPT ![c] = "closed"]
                  /\ ws_tasks' = [ws_tasks EXCEPT ![c] = "raised"]
                  /\ UNCHANGED sent
  /\ UNCHANGED << discord_client, active_hangman_games, games, handlers,
                  tool_call, websocket_server, event_loop >>

\* the peer closes the connection, or the connection is lost
ConnectionCloses(c) ==
  /\ conns[c] = "open"
  /\ conns' = [conns EXCEPT ![c] = "closed"]
  /\ UNCHANGED << discord_client, active_hangman_games, games, handlers,
                  websocket_client, ws_tasks, tool_call,
                  sent, websocket_server, event_loop >>

\* websocket.wait_closed returns and the finally clause runs
WaitClosedReturns(c) ==
  /\ ws_tasks[c] = "wait_closed"
  /\ conns[c] = "closed"
  /\ websocket_client' = clear_client(websocket_client, c)
  /\ ws_tasks' = [ws_tasks EXCEPT ![c] = "done"]
  /\ UNCHANGED << discord_client, active_hangman_games, games, handlers,
                  conns, tool_call,
                  sent, websocket_server, event_loop >>

(***************************************************************************)
(* server.py: main and start_websocket_server                              *)
(***************************************************************************)
\* main, line 756: the task of start_websocket_server is created, once, and
\* runs to its await of websockets.serve
main ==
  /\ websocket_server.task = "none"
  /\ websocket_server' = [websocket_server EXCEPT !.task = "serve"]
  /\ UNCHANGED << discord_client, active_hangman_games, games, handlers,
                  websocket_client, conns, ws_tasks, tool_call, sent,
                  event_loop >>

\* websockets.serve returns the server, which listens, or raises OSError
\* (the port is taken), which ends the task
ServeReturns ==
  /\ websocket_server.task = "serve"
  /\ \E ok \in BOOLEAN :
       websocket_server' =
         IF ok THEN [task |-> "wait_closed", listening |-> TRUE]
               ELSE [task |-> "raised", listening |-> FALSE]
  /\ UNCHANGED << discord_client, active_hangman_games, games, handlers,
                  websocket_client, conns, ws_tasks, tool_call, sent,
                  event_loop >>

\* lines 785-788: what the cancellation of the task does to the endpoint
\* while the task awaits wait_closed.  CancelledError is caught and logged;
\* nothing calls close() on the server.
on_cancelled(listening) == listening

\* The task is cancelled (asyncio.run cancels the tasks left when main has
\* returned).  In websockets.serve the CancelledError leaves the function,
\* no server having been returned; in wait_closed it is caught and the
\* function returns.
CancelServerTask ==
  /\ websocket_server.task \in {"serve", "wait_closed"}
  /\ websocket_server' =
       IF websocket_server.task = "serve"
         THEN [task |-> "cancelled", listening |-> FALSE]
         ELSE [task |-> "returned",
               listening |-> on_cancelled(websocket_server.listening)]
  /\ UNCHANGED << discord_client, active_hangman_games, games, handlers,
                  websocket_client, conns, ws_tasks, tool_call, sent,
                  event_loop >>

(***************************************************************************)
(* server.py: the tool dispatcher                                          *)
(***************************************************************************)
\* bound: the reactions one add_multiple_reactions call may name
MaxEmojis == 2

\* the names of the tools list_tools returns
list_tools ==
  { "get_server_info", "get_channels", "list_members", "add_role",
    "remove_role", "create_text_channel", "delete_channel", "add_reaction",
    "add_multiple_reactions", "remove_reaction", "send_message",
    "read_messages", "get_user_info", "moderate_message", "list_servers",
    "edit_message" }

\* a call_tool without the branch of the last tool of the catalogue
ToolNames_short ==
  { "send_message", "read_messages", "get_user_info", "moderate_message",
    "get_server_info", "get_channels", "list_members", "add_role",
    "remove_role", "create_text_channel", "delete_channel", "add_reaction",
    "add_multiple_reactions", "remove_reaction", "list_servers" }

\* the names call_tool knows
ToolNames ==
  { "send_message", "read_messages", "get_user_info", "moderate_message",
    "get_server_info", "get_channels", "list_members", "add_role",
    "remove_role", "create_text_channel", "delete_channel", "add_reaction",
    "add_multiple_reactions", "remove_reaction", "list_servers",
    "edit_message" }

\* the names a request may carry: those of the catalogue, those call_tool
\* knows and one that is in neither
RequestNames == list_tools \cup ToolNames \cup {"no_such_tool"}

Emojis == {"e1", "e2"}

EmojiLists == UNION { [1..n -> Emojis] : n \in 0..MaxEmojis }

ArgsOf(name) ==
  CASE name = "add_multiple_reactions" ->
         { [NoArgs EXCEPT !.emojis = l] : l \in EmojiLists }
    [] name = "moderate_message" ->
         { [NoArgs EXCEPT !.timeout_minutes = t, !.is_member = b] :
             t \in {0, 5}, b \in BOOLEAN }
    [] OTHER -> {NoArgs}

Ext(op) == [op |-> op, arg |-> ""]

\* a dispatcher that adds the reactions of a list last to first
external_calls_backwards(name, args) ==
  CASE name = "send_message" -> << Ext("fetch_channel"), Ext("channel.send") >>
    [] name = "read_messages" -> << Ext("fetch_channel"), Ext("channel.history") >>
    [] name = "get_user_info" -> << Ext("fetch_user") >>
    [] name = "moderate_message" ->
         << Ext("fetch_channel"), Ext("fetch_message"), Ext("message.delete") >>
    [] name = "get_server_info" -> << Ext("fetch_guild") >>
    [] name = "get_channels" -> << >>
    [] name = "list_members" -> << Ext("fetch_guild"), Ext("fetch_members") >>
    [] name = "add_role" ->
         << Ext("fetch_guild"), Ext("fetch_member"), Ext("add_roles") >>
    [] name = "remove_role" ->
         << Ext("fetch_guild"), Ext("fetch_member"), Ext("remove_roles") >>
    [] name = "create_text_channel" ->
         << Ext("fetch_guild"), Ext("create_text_channel") >>
    [] name = "delete_channel" -> << Ext("fetch_channel"), Ext("channel.delete") >>
    [] name = "add_reaction" ->
         << Ext("fetch_channel"), Ext("fetch_message"), Ext("add_reaction") >>
    [] name = "add_multiple_reactions" ->
         << Ext("fetch_channel"), Ext("fetch_message") >>
           \o [i \in 1..Len(args.emojis) |->
                 [op |-> "add_reaction",
                  arg |-> args.emojis[Len(args.emojis) + 1 - i]]]
    [] name = "remove_reaction" ->
         << Ext("fetch_channel"), Ext("fetch_message"), Ext("remove_reaction") >>
    [] name = "list_servers" -> << >>
    [] name = "edit_message" ->
         << Ext("fetch_channel"), Ext("fetch_message"), Ext("message.edit") >>
    [] OTHER -> << >>

\* the calls to the chat platform a tool awaits, in order
external_calls(name, args) ==
  CASE name = "send_message" -> << Ext("fetch_channel"), Ext("channel.send") >>
    [] name = "read_messages" -> << Ext("fetch_channel"), Ext("channel.history") >>
    [] name = "get_user_info" -> << Ext("fetch_user") >>
    [] name = "moderate_message" ->
         << Ext("fetch_channel"), Ext("fetch_message"), Ext("message.delete") >>
    [] name = "get_server_info" -> << Ext("fetch_guild") >>
    [] name = "get_channels" -> << >>
    [] name = "list_members" -> << Ext("fetch_guild"), Ext("fetch_members") >>
    [] name = "add_role" ->
         << Ext("fetch_guild"), Ext("fetch_member"), Ext("add_roles") >>
    [] name = "remove_role" ->
         << Ext("fetch_guild"), Ext("fetch_member"), Ext("remove_roles") >>
    [] name = "create_text_channel" ->
         << Ext("fetch_guild"), Ext("create_text_channel") >>
    [] name = "delete_channel" -> << Ext("fetch_channel"), Ext("channel.delete") >>
    [] name = "add_reaction" ->
         << Ext("fetch_channel"), Ext("fetch_message"), Ext("add_reaction") >>
    [] name = "add_multiple_reactions" ->
         << Ext("fetch_channel"), Ext("fetch_message") >>
           \o [i \in 1..Len(args.emojis) |->
                 [op |-> "add_reaction", arg |-> args.emojis[i]]]
    [] name = "remove_reaction" ->
         << Ext("fetch_channel"), Ext("fetch_message"), Ext("remove_reaction") >>
    [] name = "list_servers" -> << >>
    [] name = "edit_message" ->
         << Ext("fetch_channel"), Ext("fetch_message"), Ext("message.edit") >>
    [] OTHER -> << >>

\* How call_tool ends once the awaited calls of a tool have all returned.
\* moderate_message with a timeout for a member evaluates
\* datetime.timedelta with datetime bound to the class datetime.datetime
\* (line 5), which raises AttributeError before any timeout is requested.
finish(name, args) ==
  IF name = "moderate_message" /\ args.timeout_minutes > 0 /\ args.is_member
    THEN [kind |-> "raise", failure |-> "attribute_error",
          text |-> "AttributeError"]
    ELSE [kind |-> "return", failure |-> "", text |-> "done"]

\* require_discord_client without its test of discord_client
require_discord_client_unchecked(client) == TRUE

\* require_discord_client: whether the wrapped function is called
require_discord_client(client) == client

\* the exception of require_discord_client
NotReady ==
  [kind |-> "raise", failure |-> "not_ready", text |-> "Discord client not ready"]

\* the exception of line 752
UnknownTool ==
  [kind |-> "raise", failure |-> "unknown_tool", text |-> "Unknown tool"]

\* an exception of a call to the chat platform
ExternalFailure ==
  [kind |-> "raise", failure |-> "external", text |-> "HTTPException"]

\* a handler that lets the exception of call_tool through
app_call_tool_reraising(outcome) ==
  IF outcome.kind = "raise"
    THEN [response |-> "none", text |-> "", raised |-> TRUE]
    ELSE [response |-> "result", text |-> outcome.text, raised |-> FALSE]

\* The handler app.call_tool() registers around call_tool (line 499): what
\* the function returns becomes the result of the request, and an exception
\* it raises becomes an error result whose text is str(exception).
app_call_tool(outcome) ==
  IF outcome.kind = "raise"
    THEN [response |-> "error", text |-> outcome.text, raised |-> FALSE]
    ELSE [response |-> "result", text |-> outcome.text, raised |-> FALSE]

\* the request once call_tool has ended with outcome
Answered(call, outcome) ==
  [call EXCEPT !.pc = "done", !.todo = << >>, !.failure = outcome.failure,
               !.response = app_call_tool(outcome).response,
               !.text = app_call_tool(outcome).text,
               !.raised = app_call_tool(outcome).raised]

\* on_ready
on_ready ==
  /\ discord_client' = TRUE
  /\ UNCHANGED << active_hangman_games, games, handlers, websocket_client,
                  conns, ws_tasks, tool_call,
                  sent, websocket_server, event_loop >>

\* a CallToolRequest arrives: the wrapper of require_discord_client, then
\* call_tool up to its first await
CallTool(name, args) ==
  /\ tool_call.pc \in {"idle", "done"}
  /\ UNCHANGED << discord_client, active_hangman_games, games, handlers,
                  websocket_client, conns, ws_tasks,
                  sent, websocket_server, event_loop >>
  /\ LET call == [NoCall EXCEPT !.name = name, !.args = args,
                                !.ready = discord_client]
     IN  tool_call' =
           IF ~require_discord_client(discord_client)
             THEN Answered(call, NotReady)
           ELSE IF name \notin ToolNames
             THEN Answered(call, UnknownTool)
           ELSE IF external_calls(name, args) = << >>
             THEN Answered(call, finish(name, args))
           ELSE [call EXCEPT !.pc = "running",
                             !.todo = external_calls(name, args)]

\* the awaited call to the chat platform returns or raises
ExternalReturns ==
  /\ tool_call.pc = "running"
  /\ UNCHANGED << discord_client, active_hangman_games, games, handlers,
                  websocket_client, conns, ws_tasks,
                  sent, websocket_server, event_loop >>
  /\ \E ok \in BOOLEAN :
       LET call == [tool_call EXCEPT !.todo = Tail(@),
                       !.performed = Append(@, Head(tool_call.todo))]
       IN  tool_call' =
             IF ~ok THEN Answered(tool_call, ExternalFailure)
             ELSE IF call.todo = << >>
               THEN Answered(call, finish(call.name, call.args))
             ELSE call

(***************************************************************************)
(* The runs.                                                               *)
(***************************************************************************)
\* an event is observed and its task starts at once
GameEvent(h) ==
  /\ \E m \in GameMessages : on_message(h, m)
  /\ UNCHANGED event_loop

RelayEvent(h) ==
  /\ \E m \in RelayMessages : on_message(h, m)
  /\ UNCHANGED event_loop

NextGame ==
  \E h \in Handlers :
    \/ GameEvent(h)
    \/ CommandSendReturns(h)
    \/ EditReturns(h)
    \/ MessageDeleteReturns(h)
    \/ ThinkingSendReturns(h)
    \/ ThinkingDeleteReturns(h)

\* the game: commands and guesses in the listened channel, no relay client
SpecGame == Init /\ [][NextGame]_vars

LosingEvent(h) ==
  /\ \E m \in LosingMessages : on_message(h, m)
  /\ UNCHANGED event_loop

NextLosing ==
  \E h \in Handlers :
    \/ LosingEvent(h)
    \/ CommandSendReturns(h)
    \/ EditReturns(h)
    \/ MessageDeleteReturns(h)
    \/ ThinkingSendReturns(h)
    \/ ThinkingDeleteReturns(h)

\* the game played to its loss: one start command and wrong letters
SpecLosing == Init /\ [][NextLosing]_vars

NextRelay ==
  \/ \E h \in Handlers :
       \/ RelayEvent(h)
       \/ ThinkingSendReturns(h)
       \/ ThinkingDeleteReturns(h)
  \/ \E c \in Conns :
       \/ WebsocketAccept(c)
       \/ ConnectionCloses(c)
       \/ WaitClosedReturns(c)
  \/ main
  \/ ServeReturns
  \/ CancelServerTask

\* the relay: general messages while relay clients come and go
SpecRelay == Init /\ [][NextRelay]_vars

\* the events of the runs of the commands: the start and the stop command,
\* the letters of the word, and events on_message discards: a guess of a
\* bot, a start command and a guess in another channel
CommandMessages ==
  { Message(FALSE, TARGET_CHANNEL_ID, t) :
      t \in {TextStart, TextStop, <<"l">>, <<"a">>, <<"m">>} }
    \cup { Message(TRUE, TARGET_CHANNEL_ID, <<"q">>),
           Message(FALSE, OtherChannel, TextStart),
           Message(FALSE, OtherChannel, <<"l">>) }

CommandEvent(h) ==
  /\ \E m \in CommandMessages : on_message(h, m)
  /\ UNCHANGED event_loop

NextCommand ==
  \E h \in Handlers :
    \/ CommandEvent(h)
    \/ CommandSendReturns(h)
    \/ EditReturns(h)
    \/ MessageDeleteReturns(h)
    \/ ThinkingSendReturns(h)
    \/ ThinkingDeleteReturns(h)

\* the commands: sessions started and stopped while the word is guessed
SpecCommand == Init /\ [][NextCommand]_vars

\* the events of the runs with texts that are no guess: those texts, the
\* start command and a letter of the word
IgnoredMessages ==
  { Message(FALSE, TARGET_CHANNEL_ID, t) :
      t \in IgnoredTexts \cup {TextStart, <<"l">>} }

IgnoredEvent(h) ==
  /\ \E m \in IgnoredMessages : on_message(h, m)
  /\ UNCHANGED event_loop

NextIgnored ==
  \E h \in Handlers :
    \/ IgnoredEvent(h)
    \/ CommandSendReturns(h)
    \/ EditReturns(h)
    \/ MessageDeleteReturns(h)
    \/ ThinkingSendReturns(h)
    \/ ThinkingDeleteReturns(h)

\* the game with texts that are no guess, before and during a session
SpecIgnored == Init /\ [][NextIgnored]_vars

\* a handler that reads the placeholder from a place all tasks share, where
\* the first one published stays
thinking_message_id_shared(returned, published) ==
  IF published = {} THEN returned
  ELSE CHOOSE i \in { p.id : p \in published } :
         \A p \in published : i <= p.id

\* line 153: the id the payload carries is that of thinking_message, the
\* local variable that holds the message the task's own channel.send returned
thinking_message_id(returned, published) == returned

\* lines 149-154: the payload with what it carries of the event.  message and
\* thinking_message are local variables of the task.
payload_for(event, channel, thinking) ==
  [ type |-> payload.type, content |-> event, channelId |-> channel,
    thinkingMessageId |-> thinking ]

\* a general message is observed and its task starts: the events are numbered
GeneralEvent(h) ==
  /\ event_loop.seen < MaxGeneral
  /\ on_message(h, Message(FALSE, TARGET_CHANNEL_ID, TextHello))
  /\ event_loop' = [event_loop EXCEPT !.seen = @ + 1,
                                      !.task[h] = event_loop.seen + 1]

\* channel.send of the placeholder returns or raises, for a numbered event:
\* the chat platform gives the placeholder it publishes a new id
PlaceholderSendReturns(h) ==
  /\ thinking_send_returns(h)
  /\ LET returned == Cardinality(event_loop.published) + 1
         made == handlers'[h].ph # "none"
         forwarded == handlers'[h].ph = "sent"
     IN  event_loop' = [event_loop EXCEPT
           !.published = IF made
             THEN @ \cup {[id |-> returned, event |-> event_loop.task[h]]}
             ELSE @,
           !.forwarded = IF forwarded
             THEN @ \cup {payload_for(event_loop.task[h], handlers[h].channel_id,
                            thinking_message_id(returned, event_loop.published))}
             ELSE @]

NextPayload ==
  \/ \E h \in Handlers :
       \/ GeneralEvent(h)
       \/ PlaceholderSendReturns(h)
       \/ ThinkingDeleteReturns(h)
  \/ \E c \in Conns :
       \/ WebsocketAccept(c)
       \/ ConnectionCloses(c)
       \/ WaitClosedReturns(c)
  \/ main
  \/ ServeReturns

\* the relay with numbered events: what each payload carries
SpecPayload == Init /\ [][NextPayload]_vars

\* texts of the events of the runs with a queue of tasks: the start command,
\* two letters of the word and one that is not in it
OrderTexts == {TextStart} \cup { <<c>> : c \in {"l", "a", "k"} }

OrderMessages == { Message(FALSE, TARGET_CHANNEL_ID, t) : t \in OrderTexts }

\* An event of the gateway is observed: discord.py creates the task of
\* on_message for it, which waits in the loop's queue of ready tasks.  The
\* events are numbered in the order they are observed.
Observe(m) ==
  /\ event_loop.seen < MaxEvents
  /\ event_loop' = [event_loop EXCEPT
         !.seen = @ + 1,
         !.ready = Append(@, [id |-> event_loop.seen + 1, message |-> m])]
  /\ UNCHANGED << discord_client, active_hangman_games, games, handlers,
                  websocket_client, conns, ws_tasks, tool_call, sent,
                  websocket_server >>

\* an event loop that runs the task created last
next_task_newest(ready) == Len(ready)

\* the position in the queue of the task the loop runs next: asyncio runs
\* the ready tasks first in, first out
next_task(ready) == 1

\* The loop starts the next task, which runs on_message to its first await
\* that suspends; a task that is now awaiting game_message.edit has called
\* game.guess (line 115).
StartTask(h) ==
  /\ event_loop.ready # << >>
  /\ LET k == next_task(event_loop.ready)
         e == event_loop.ready[k]
     IN  /\ on_message(h, e.message)
         /\ event_loop' = [event_loop EXCEPT
                !.ready = SubSeq(@, 1, k - 1) \o SubSeq(@, k + 1, Len(@)),
                !.applied = IF handlers'[h].pc = "edit"
                              THEN Append(@, e.id) ELSE @]

NextOrder ==
  \/ \E m \in OrderMessages : Observe(m)
  \/ \E h \in Handlers :
       \/ StartTask(h)
       \/ CommandSendReturns(h)
       \/ EditReturns(h)
       \/ MessageDeleteReturns(h)
       \/ ThinkingSendReturns(h)
       \/ ThinkingDeleteReturns(h)

\* the game with the events waiting in the loop's queue before their tasks
\* start
SpecOrder == Init /\ [][NextOrder]_vars

\* words of HangmanGame.WORDS for the runs of one game object, with and
\* without a letter that occurs twice
SampleWords ==
  { <<"l", "l", "a", "m", "a">>, <<"k", "o", "a", "l", "a">>,
    <<"l", "i", "o", "n">> }

\* the letters guessed in those runs
SampleLetters == {"l", "a", "m", "k", "o", "i", "n", "q", "x", "y", "L"}

\* one game object just constructed, whatever word random.choice drew
InitWord ==
  /\ discord_client = FALSE
  /\ active_hangman_games = [c \in Channels |-> NoEntry]
  /\ \E w \in SampleWords :
       games = [i \in GameIds |-> IF i = 1 THEN HangmanGame(w) ELSE NoGame]
  /\ handlers = [h \in Handlers |-> Idle]
  /\ websocket_client = None
  /\ conns = [c \in Conns |-> "unused"]
  /\ ws_tasks = [c \in Conns |-> "none"]
  /\ tool_call = NoCall
  /\ sent = [c \in Conns |-> {}]
  /\ websocket_server = NoServer
  /\ event_loop = NoEvents

\* a call of HangmanGame.guess on that object
GuessLetter(c) ==
  /\ games' = [games EXCEPT ![1] = guess(@, c)]
  /\ UNCHANGED << discord_client, active_hangman_games, handlers,
                  websocket_client, conns, ws_tasks, tool_call, sent,
                  websocket_server, event_loop >>

NextWord == \E c \in SampleLetters : GuessLetter(c)

\* the game object alone: every sequence of guesses on every sample word
SpecWord == InitWord /\ [][NextWord]_vars

NextTool ==
  \/ on_ready
  \/ \E name \in RequestNames : \E args \in ArgsOf(name) : CallTool(name, args)
  \/ ExternalReturns

\* the tool dispatcher: requests before and after the client is ready
SpecTool == Init /\ [][NextTool]_vars

(***************************************************************************)
(* The claims.                                                             *)
(***************************************************************************)
Terminal(g) == is_won(g) \/ is_lost(g)

\* the game object i exists before and after the step
Lives(i) == games[i].word # << >> /\ games'[i].word # << >>

\* C1: start commands for a room never create two sessions: an entry that
\* is stored is only ever removed, a start command never puts another
\* session in its place.
C1_StartNeverReplaces ==
  [][\A ch \in Channels :
       active_hangman_games[ch] # NoEntry =>
         active_hangman_games'[ch] \in {active_hangman_games[ch], NoEntry}]_vars

\* C2: when the status update of a guess that ended the game (won or lost)
\* has come back, whatever its outcome, the registry no longer holds the
\* entry of that game.
C2_TerminalGuessRemovesEntry ==
  [][\A h \in Handlers :
       (handlers[h].pc = "edit" /\ handlers[h].term /\ handlers'[h].pc # "edit")
         => active_hangman_games'[handlers[h].channel_id].game
              # handlers[h].game]_vars

\* C3: attempts_left of every game stays within 0..6, never increases, and
\* changes only by one letter that is neither in the word nor yet in
\* guesses_incorrect being guessed, which lowers it by exactly 1.
C3_AttemptsLeft ==
  [][\A i \in GameIds :
       Lives(i) =>
         /\ games'[i].attempts_left \in 0..(HangmanPicsLen - 1)
         /\ games'[i].attempts_left <= games[i].attempts_left
         /\ games'[i].attempts_left # games[i].attempts_left =>
              /\ games'[i].attempts_left = games[i].attempts_left - 1
              /\ \E c \in games'[i].guesses_incorrect :
                   /\ c \notin games[i].guesses_incorrect
                   /\ c \notin CharsOf(games[i].word)
                   /\ games'[i].guesses_incorrect
                        = games[i].guesses_incorrect \cup {c}]_vars

\* C4: a tool call that came while discord_client was not set has ended
\* with the readiness error, whatever its name, and no call to the chat
\* platform was made or is awaited for it.
C4_NotReadyFailsFast ==
  (tool_call.pc # "idle" /\ ~tool_call.ready) =>
    /\ tool_call.pc = "done"
    /\ tool_call.failure = "not_ready"
    /\ tool_call.response = "error"
    /\ tool_call.text = NotReady.text
    /\ tool_call.performed = << >>
    /\ tool_call.todo = << >>

\* a call of a name call_tool does not know, made before the client is
\* ready, has been answered
C4_Witness ==
  /\ tool_call.pc = "done"
  /\ ~tool_call.ready
  /\ tool_call.name = "no_such_tool"

C6_TerminalGameIsFrozen ==
  [][\A i \in GameIds :
       (Lives(i) /\ Terminal(games[i])) => games'[i] = games[i]]_vars

\* C7: only a text that is a single letter is taken as a guess: the task of
\* any other text does not take the guess branch, in which the message of
\* the event is deleted and nothing is forwarded.
C7_OnlyLettersAreGuesses ==
  \A h \in Handlers : handlers[h].path = "guess" => handlers[h].valid

\* C8: a general message handled with no relay client transmits nothing,
\* its placeholder is deleted and on_message ends without an exception.
C8_NotConnectedDiscardsPlaceholder ==
  [][\A h \in Handlers :
       (handlers[h].pc = "thinking_delete" /\ handlers'[h].pc = "done")
         => handlers'[h].ph = "deleted" /\ ~handlers'[h].exc]_vars

\* C9: the placeholder of a general message whose task has ended was
\* transmitted in a payload or deleted.
C9_NoOrphanedPlaceholder ==
  \A h \in Handlers :
    handlers[h].pc = "done" => handlers[h].ph \in {"none", "sent", "deleted"}

\* C10: once the websocket_handler of a connection has ended, by the
\* connection closing or by a failure, state.websocket_client is no longer
\* that connection.
C10_ClosedConnectionIsCleared ==
  \A c \in Conns :
    ws_tasks[c] \in {"done", "raised"} => websocket_client # c

\* C11: accepting a relay connection makes it state.websocket_client whatever
\* the handle held before, and the message sent over the new connection, when
\* the connection takes it, is the ready notification of type "connection".
C11_AcceptReplacesHandle ==
  [][\A c \in Conns :
       (conns[c] = "unused" /\ conns'[c] # "unused") =>
         /\ websocket_client' = c
         /\ conns'[c] = "open" => sent'[c] = {"connection"}
         /\ \A d \in Conns \ {c} : sent'[d] = sent[d]]_vars

\* a second client was accepted while the first was connected and was the
\* handle: the second is the handle and has been sent the notification
C11_Witness ==
  /\ websocket_client = 2
  /\ conns[1] = "open"
  /\ ws_tasks[1] = "wait_closed"
  /\ conns[2] = "open"
  /\ sent[2] = {"connection"}

\* C12: is_won() is true exactly when every character of the word, at every
\* position, is in guesses_correct, which holds the letters of the word that
\* were guessed and no other; it is not true while a character of the word
\* is missing from it.
C12_WonIffAllGuessed ==
  \A i \in GameIds :
    games[i].word # << >> =>
      /\ is_won(games[i]) <=>
           \A k \in 1..Len(games[i].word) :
             games[i].word[k] \in games[i].guesses_correct
      /\ games[i].guesses_correct \subseteq CharsOf(games[i].word)
      /\ games[i].guesses_incorrect \cap CharsOf(games[i].word) = {}

\* a word with letters that occur twice is won with its three distinct
\* letters guessed, after a wrong guess
C12_Witness ==
  /\ games[1].word = <<"l", "l", "a", "m", "a">>
  /\ games[1].guesses_correct = {"l", "a", "m"}
  /\ games[1].guesses_incorrect # {}
  /\ is_won(games[1])

\* the hangman command of task h has just run "start" for its room
StartRuns(h) ==
  handlers[h].pc = "done" /\ handlers'[h].pc \in {"start_send", "reject_send"}

\* the "start" of task h, which found no entry, has just ended
StartEnds(h) == handlers[h].pc = "start_send" /\ handlers'[h].pc = "done"

\* the registry after the step holds, for the room of task h, the game that
\* task created, with no guess made and 6 attempts left, and the other rooms
\* are as before
StoredFresh(h) ==
  LET ch == handlers[h].channel_id
      g == handlers[h].game
  IN  /\ active_hangman_games'[ch] = [game |-> g, game_message |-> g]
      /\ games'[g].guesses_correct = {}
      /\ games'[g].guesses_incorrect = {}
      /\ games'[g].attempts_left = 6
      /\ \A c \in Channels \ {ch} :
           active_hangman_games'[c] = active_hangman_games[c]

\* a "start" is rejected exactly when its room has an entry, and then the
\* registry and the game of that entry are left as they are
RejectedIffActive(h) ==
  LET ch == handlers'[h].channel_id
      entry == active_hangman_games[ch]
  IN  /\ handlers'[h].pc = "reject_send" <=> entry # NoEntry
      /\ entry # NoEntry =>
           /\ active_hangman_games' = active_hangman_games
           /\ games'[entry.game] = games[entry.game]

\* C13 as stated: a start command for a room with an entry is rejected and
\* changes nothing; a start command for a room without an entry ends with
\* the room's entry being its new game, no guess made and 6 attempts left.
C13_StartStoresOrRejects ==
  [][\A h \in Handlers :
       /\ StartRuns(h) => RejectedIffActive(h)
       /\ StartEnds(h) => StoredFresh(h)]_vars

\* C13, amended: a start command for a room with an entry is rejected and
\* changes nothing; a start command for a room without an entry ends with
\* the room's entry being its new game, no guess made and 6 attempts left,
\* when its first status was published, and with the registry unchanged
\* when the publication failed.
C13_StartStoresIfPublished ==
  [][\A h \in Handlers :
       /\ StartRuns(h) => RejectedIffActive(h)
       /\ StartEnds(h) =>
            \/ StoredFresh(h)
            \/ active_hangman_games' = active_hangman_games]_vars

\* a start command is being rejected in a room whose session, stored by an
\* earlier start command, has had guesses
C13_Witness ==
  \E h \in Handlers :
    /\ handlers[h].pc = "reject_send"
    /\ active_hangman_games[TARGET_CHANNEL_ID] # NoEntry
    /\ games[active_hangman_games[TARGET_CHANNEL_ID].game].guesses_correct # {}

\* the hangman command of task h has just run "stop" for its room
StopRuns(h) ==
  handlers[h].pc = "done" /\ handlers'[h].pc \in {"stop_send", "nostop_send"}

\* C14: a stop command for a room with an entry removes that entry, whatever
\* its game; one for a room without an entry answers that there is no game
\* and leaves the registry unchanged; the entries of other rooms are never
\* touched, and the answer coming back changes nothing.
C14_StopRemovesOrRejects ==
  [][\A h \in Handlers :
       /\ StopRuns(h) =>
            LET ch == handlers'[h].channel_id IN
            /\ handlers'[h].pc = "stop_send" <=> active_hangman_games[ch] # NoEntry
            /\ active_hangman_games'[ch] = NoEntry
            /\ active_hangman_games[ch] = NoEntry =>
                 active_hangman_games' = active_hangman_games
            /\ \A c \in Channels \ {ch} :
                 active_hangman_games'[c] = active_hangman_games[c]
       /\ (handlers[h].pc \in {"stop_send", "nostop_send"}
             /\ handlers'[h].pc = "done") =>
            active_hangman_games' = active_hangman_games]_vars

\* a stop command has removed the entry of a game that was already won or
\* lost, while the task of the guess that ended it awaits the status edit
C14_Witness ==
  \E h, h2 \in Handlers :
    /\ handlers[h].pc = "stop_send"
    /\ handlers[h2].pc = "edit"
    /\ Terminal(games[handlers[h2].game])
    /\ active_hangman_games[TARGET_CHANNEL_ID] = NoEntry

\* C15: an event whose author is a bot, or whose channel is not the one the
\* bot listens to, ends on_message at once: the registry, the games, the
\* relay client, its connections and what was sent over them are unchanged,
\* no command runs, no call to the chat platform is awaited and the other
\* tasks are left alone.
C15_DiscardedEventChangesNothing ==
  [][\A h \in Handlers : \A m \in GameMessages \cup RelayMessages :
       ((m.author_bot \/ m.channel = "7") /\ on_message(h, m)) =>
         /\ active_hangman_games' = active_hangman_games
         /\ games' = games
         /\ websocket_client' = websocket_client
         /\ conns' = conns
         /\ sent' = sent
         /\ handlers'[h].pc = "done"
         /\ handlers'[h].path = "discarded"
         /\ handlers'[h].ph = "none"
         /\ ~handlers'[h].exc
         /\ \A k \in Handlers \ {h} : handlers'[k] = handlers[k]]_vars

\* an event was discarded while a session with guesses is registered and
\* the other task awaits a status edit
C15_Witness ==
  \E h, k \in Handlers :
    /\ handlers[h].path = "discarded"
    /\ handlers[k].pc = "edit"
    /\ active_hangman_games[TARGET_CHANNEL_ID] # NoEntry

CommandSends == {"start_send", "reject_send", "stop_send", "nostop_send"}

\* no guess is applied by the step: every game object is as it was
NoGuessApplied == \A i \in GameIds : Lives(i) => games'[i] = games[i]

\* C16: an event in the listened channel whose text starts with "!" is
\* handled by the command only: its task awaits the answer of the command or
\* ends, and when that answer has come the task ends, whether or not the
\* command stored or removed a session; no step of the task applies a guess,
\* and the task never reaches the deletion of the guess path, the
\* placeholder or the relay.
C16_CommandsAreOnlyCommands ==
  [][\A h \in Handlers :
       /\ \A m \in GameMessages :
            (~m.author_bot /\ m.channel = "42" /\ m.content[1] = "!"
               /\ on_message(h, m)) =>
              /\ handlers'[h].pc \in CommandSends \cup {"done"}
              /\ handlers'[h].path \in {"command", "none"}
              /\ handlers'[h].ph = "none"
              /\ NoGuessApplied
       /\ (handlers[h].path = "command" /\ handlers'[h] # handlers[h]) =>
            /\ handlers[h].pc \in CommandSends
            /\ handlers'[h].pc = "done"
            /\ handlers'[h].ph = "none"
            /\ ~handlers'[h].exc
            /\ NoGuessApplied
            /\ sent' = sent]_vars

\* a start command awaits its answer while the session another start
\* command has just stored is registered
C16_Witness ==
  \E h, k \in Handlers :
    /\ handlers[h].pc = "start_send"
    /\ handlers[h].path = "command"
    /\ handlers[k].pc = "done"
    /\ active_hangman_games[TARGET_CHANNEL_ID] # NoEntry

\* C17: of the tool calls that came with the client ready, those whose name
\* is not a name of list_tools, and only those, fail with "Unknown tool";
\* such a call is answered at once, no call to the chat platform having been
\* made or being awaited for it.
C17_UnknownToolIffNotListed ==
  (tool_call.pc # "idle" /\ tool_call.ready) =>
    /\ tool_call.name \notin list_tools =>
         /\ tool_call.pc = "done"
         /\ tool_call.failure = "unknown_tool"
         /\ tool_call.response = "error"
         /\ tool_call.text = "Unknown tool"
         /\ tool_call.performed = << >>
         /\ tool_call.todo = << >>
    /\ tool_call.name \in list_tools => tool_call.failure # "unknown_tool"

\* a call of a name that is not in the catalogue, made with the client
\* ready, has been answered
C17_Witness ==
  /\ tool_call.pc = "done"
  /\ tool_call.ready
  /\ tool_call.name = "no_such_tool"
  /\ tool_call.failure = "unknown_tool"

\* C18: the guesses are applied to the game of the room in the order in
\* which their events were observed: the numbers of the events in
\* event_loop.applied increase, whatever the interleaving of the tasks at
\* their awaits.
C18_GuessesInObservedOrder ==
  \A i, j \in 1..Len(event_loop.applied) :
    i < j => event_loop.applied[i] < event_loop.applied[j]

\* two guesses have been applied, both tasks await their status edit and a
\* third event waits in the queue
C18_Witness ==
  /\ Len(event_loop.applied) = 2
  /\ \A h \in Handlers : handlers[h].pc = "edit"
  /\ event_loop.ready # << >>

\* C19: no failure of a call made while an event is handled (the status
\* edit, the deletion of the guess message, the publication of the
\* placeholder, the transmission over the relay) leaves on_message as an
\* exception.
C19_NoFailureEscapes ==
  \A h \in Handlers : ~handlers[h].exc

\* C20: once the task of start_websocket_server has ended by being
\* cancelled, the endpoint it started no longer listens.
C20_CancelledEndpointIsClosed ==
  websocket_server.task \in {"returned", "cancelled"} =>
    ~websocket_server.listening

\* C21: in every state of a game guesses_correct and guesses_incorrect have
\* no letter in common, guesses_correct holds letters of the word only,
\* guesses_incorrect holds no letter of the word, and no guess changes the
\* word.
C21_GuessSetsAndWord ==
  [][\A i \in GameIds :
       Lives(i) =>
         /\ games'[i].word = games[i].word
         /\ games'[i].guesses_correct \cap games'[i].guesses_incorrect = {}
         /\ \A c \in games'[i].guesses_correct :
              \E k \in 1..Len(games'[i].word) : games'[i].word[k] = c
         /\ \A c \in games'[i].guesses_incorrect :
              \A k \in 1..Len(games'[i].word) : games'[i].word[k] # c]_vars

\* a game in which letters of both kinds were guessed
C21_Witness ==
  /\ games[1].word = <<"k", "o", "a", "l", "a">>
  /\ games[1].guesses_correct = {"k", "l"}
  /\ games[1].guesses_incorrect = {"m", "q"}

\* the position of a character in the order of the code points
CodePoint(c) == CHOOSE k \in 1..Len(CodePointOrder) : CodePointOrder[k] = c

\* C22: get_game_state_message leaves the game as it is, and for every
\* state of a game its message shows picture 6 - attempts_left, held within
\* 0..6; the letters of the word in their places, separated by blanks, each
\* one shown when it is in guesses_correct and "_" otherwise; the letters of
\* guesses_incorrect once each in increasing order; and the footer of a won
\* game if is_won(), else that of a lost game if is_lost(), else the
\* invitation to guess.
C22_RenderShowsTheState ==
  \A i \in GameIds :
    games[i].word # << >> =>
      LET g == games[i]
          out == get_game_state_message(g)
          n == Len(g.word)
          shown == { k \in 1..Len(out.incorrect) : out.incorrect[k] # " " }
      IN  /\ out.self = g
          /\ out.art \in 0..6
          /\ g.attempts_left \in 0..6 => out.art = 6 - g.attempts_left
          /\ g.attempts_left < 0 => out.art = 6
          /\ Len(out.word) = 2 * n - 1
          /\ \A k \in 1..n :
               out.word[2 * k - 1] =
                 IF g.word[k] \in g.guesses_correct THEN g.word[k] ELSE "_"
          /\ \A k \in 1..(n - 1) : out.word[2 * k] = " "
          /\ { out.incorrect[k] : k \in shown } = g.guesses_incorrect
          /\ Cardinality(shown) = Cardinality(g.guesses_incorrect)
          /\ \A j, k \in shown :
               j < k => CodePoint(out.incorrect[j]) < CodePoint(out.incorrect[k])
          /\ out.footer = IF CharsOf(g.word) \subseteq g.guesses_correct THEN "won"
                          ELSE IF g.attempts_left <= 0 THEN "lost"
                          ELSE "continue"

\* a game with seven wrong guesses, some letters found and attempts_left
\* below 0, for which the index of the picture is clamped
C22_Witness ==
  /\ games[1].word = <<"l", "l", "a", "m", "a">>
  /\ games[1].guesses_correct = {"l", "a"}
  /\ games[1].attempts_left = -1

\* the letters of the model that have an upper-case form, with that form
UpperCase == { <<"l", "L">>, <<"a", "A">>, <<"q", "Q">> }

\* C23: for every state of a game and every letter c, guessing c a second
\* time changes nothing of what the first guess left and gives the same
\* answer, and guessing the upper-case form of c leaves the same game and
\* gives the same answer as guessing c.
C23_GuessIdempotentAnyCase ==
  \A i \in GameIds :
    games[i].word # << >> =>
      /\ \A c \in SampleLetters \cup {"A", "Q"} :
           LET once == guess(games[i], c) IN
           /\ guess(once, c) = once
           /\ guess_result(once, c) = guess_result(games[i], c)
      /\ \A p \in UpperCase :
           /\ guess(games[i], p[2]) = guess(games[i], p[1])
           /\ guess_result(games[i], p[2]) = guess_result(games[i], p[1])

\* a game after one hit and one miss, each of which may be guessed again in
\* either case
C23_Witness ==
  /\ games[1].word = <<"l", "i", "o", "n">>
  /\ games[1].guesses_correct = {"l"}
  /\ games[1].guesses_incorrect = {"q"}
  /\ games[1].attempts_left = 5

\* the reactions added for the tool call so far, in the order of the calls
ReactionsAdded ==
  LET added == SelectSeq(tool_call.performed, LAMBDA x : x.op = "add_reaction")
  IN  [k \in 1..Len(added) |-> added[k].arg]

\* C24: add_multiple_reactions adds the reactions one at a time in the order
\* of its list: those added are always the first ones of the list, in order.
\* When a call fails the request is answered with that failure, nothing more
\* is attempted and no reaction added before is removed; when none fails
\* the whole list has been added.
C24_ReactionsInOrderNoRollback ==
  (tool_call.name = "add_multiple_reactions" /\ tool_call.ready) =>
    /\ Len(ReactionsAdded) <= Len(tool_call.args.emojis)
    /\ ReactionsAdded = SubSeq(tool_call.args.emojis, 1, Len(ReactionsAdded))
    /\ \A k \in 1..Len(tool_call.performed) :
         tool_call.performed[k].op # "remove_reaction"
    /\ (tool_call.pc = "done" /\ tool_call.failure = "external") =>
         /\ tool_call.response = "error"
         /\ tool_call.text = "HTTPException"
         /\ tool_call.todo = << >>
    /\ (tool_call.pc = "done" /\ tool_call.failure = "") =>
         /\ tool_call.response = "result"
         /\ ReactionsAdded = tool_call.args.emojis

\* the call was given two different reactions; adding the second one failed
\* and the first one is still added
C24_Witness ==
  /\ tool_call.pc = "done"
  /\ tool_call.name = "add_multiple_reactions"
  /\ tool_call.args.emojis = <<"e1", "e2">>
  /\ tool_call.failure = "external"
  /\ ReactionsAdded = <<"e1">>

\* C25: an event without the prefix whose text is blank, longer than one
\* character, a digit or a symbol, and any event without the prefix that
\* comes while its room has no entry, leaves the registry and every game as
\* they are and asks for no edit of the status message, in the step that
\* receives it and in every later step of its task.
C25_NonGuessChangesNoGame ==
  [][\A h \in Handlers :
       /\ \A m \in IgnoredMessages :
            (m.content[1] # "!"
               /\ (m.content \in { <<" ">>, <<"h", "e", "l", "l", "o">>,
                                   <<"5">>, <<"?">> }
                     \/ active_hangman_games[m.channel] = NoEntry)
               /\ on_message(h, m)) =>
              /\ active_hangman_games' = active_hangman_games
              /\ NoGuessApplied
              /\ handlers'[h].pc # "edit"
       /\ ((handlers[h].path = "general"
              \/ (handlers[h].path = "guess" /\ ~handlers[h].valid))
             /\ handlers'[h] # handlers[h]) =>
            /\ active_hangman_games' = active_hangman_games
            /\ NoGuessApplied
            /\ handlers'[h].pc # "edit"]_vars

\* a text that is no letter is being handled in the branch of the guesses
\* while the task of a guess awaits the edit of the status
C25_Witness ==
  \E h, k \in Handlers :
    /\ handlers[h].path = "guess"
    /\ ~handlers[h].valid
    /\ handlers[h].pc = "msg_delete"
    /\ handlers[k].pc = "edit"
    /\ games[handlers[k].game].guesses_correct = {"l"}

\* C26: every payload handed to the relay carries the room of its event and
\* the id of the placeholder that was published for that same event, however
\* the tasks of the general messages interleave; no payload carries the id
\* of a placeholder published for another event.
C26_PayloadCarriesOwnPlaceholder ==
  \A pl \in event_loop.forwarded :
    /\ pl.channelId = "42"
    /\ [id |-> pl.thinkingMessageId, event |-> pl.content]
         \in event_loop.published
    /\ \A p \in event_loop.published :
         p.id = pl.thinkingMessageId => p.event = pl.content

\* two events were forwarded, and the placeholder of the later event was
\* published before that of the earlier one
C26_Witness ==
  \E a, b \in event_loop.forwarded :
    /\ a.content < b.content
    /\ a.thinkingMessageId > b.thinkingMessageId

\* C27: a moderate_message call with timeout_minutes above 0 for a message
\* of a member, none of whose calls to the chat platform failed, has deleted
\* the message, has timed the author out and is answered with a result; a
\* call with no timeout has deleted the message and is answered with a
\* result.
C27_ModerateDeletesAndTimesOut ==
  (/\ tool_call.pc = "done"
   /\ tool_call.ready
   /\ tool_call.name = "moderate_message"
   /\ tool_call.failure # "external") =>
    /\ \E k \in 1..Len(tool_call.performed) :
         tool_call.performed[k].op = "message.delete"
    /\ tool_call.response = "result"
    /\ (tool_call.args.timeout_minutes > 0 /\ tool_call.args.is_member) =>
         \E k \in 1..Len(tool_call.performed) :
           tool_call.performed[k].op = "author.timeout"

\* C28: in every state of every game attempts_left is 6 less the number of
\* letters in guesses_incorrect.
C28_AttemptsCountMisses ==
  \A i \in GameIds :
    games[i].word # << >> =>
      games[i].attempts_left = 6 - Cardinality(games[i].guesses_incorrect)

\* a game after three different misses, a repeated one among the guesses or
\* not, and a hit
C28_Witness ==
  /\ games[1].word = <<"l", "i", "o", "n">>
  /\ games[1].guesses_incorrect = {"a", "m", "k"}
  /\ games[1].guesses_correct = {"o"}
  /\ games[1].attempts_left = 3

\* C29: the only room that ever has an entry in the registry is the one the
\* bot listens to, so the registry holds one game at most, and an event of
\* another room, a start command or a guess, leaves the registry and every
\* game as they are.
C29_OnlyTheListenedRoom ==
  [][/\ \A ch \in Channels : ch # "42" => active_hangman_games'[ch] = NoEntry
     /\ Cardinality({ ch \in Channels : active_hangman_games'[ch] # NoEntry }) <= 1
     /\ \A h \in Handlers : \A m \in CommandMessages :
          (m.channel = "7" /\ on_message(h, m)) =>
            /\ active_hangman_games' = active_hangman_games
            /\ games' = games]_vars

\* an event of another room was discarded while the listened room has its
\* session and the other room has none
C29_Witness ==
  \E h, k \in Handlers :
    /\ handlers[h].path = "discarded"
    /\ handlers[k].pc = "done"
    /\ handlers[k].path = "none"
    /\ active_hangman_games["42"] # NoEntry
    /\ active_hangman_games["7"] = NoEntry

\* C30: the relay client accepted last is state.websocket_client for as long
\* as it stays connected, whatever happens to the connections it replaced.
C30_ReplacementKeepsHandle ==
  \A c \in Conns :
    (/\ conns[c] = "open"
     /\ ws_tasks[c] = "wait_closed"
     /\ \A d \in Conns : d > c => conns[d] = "unused") =>
      websocket_client = c

\* C31: the removal a guess task performs once game_message.edit has
\* returned (lines 118-119) takes out of the registry only the entry of the
\* game its guess was applied to, never the entry of a session started
\* since, whatever stop and start commands and other guesses ran meanwhile.
C31_RemovesOnlyItsSession ==
  [][\A h \in Handlers :
       (/\ EditReturns(h)
        /\ handlers'[h].pc = "msg_delete"
        /\ active_hangman_games[handlers[h].channel_id] # NoEntry
        /\ active_hangman_games'[handlers[h].channel_id] = NoEntry) =>
         active_hangman_games[handlers[h].channel_id].game = handlers[h].game]_vars

====
